---- MODULE Spec2Model ----
(***************************************************************************)
(* Model of the detection aggregation engine of drone-anomaly-server:      *)
(* the detections store (poll loop, de-duplication by track id, per-class  *)
(* summaries), the analytics store (totals, extremes, object / anomaly     *)
(* counts) and the Home view's watcher that feeds the second from the      *)
(* first.                                                                  *)
(*                                                                         *)
(* Every action is one JavaScript task: a call of a store function, a      *)
(* timer callback, or the continuation of fetchDetections after the        *)
(* awaited getDetections() settles (together with the continuation of      *)
(* poll that follows it in the same task).  The watcher callback runs in   *)
(* the microtask flush that follows the task that changed data, so no      *)
(* other task runs while it is pending.                                    *)
(***************************************************************************)
EXTENDS Integers, Sequences, FiniteSets, TLC

(***************************************************************************)
(* Bounds of the model.                                                    *)
(***************************************************************************)
\* integer track ids the remote source hands out: 1..MaxTrack
MaxTrack == 2
\* longest detection sequence of one snapshot
MaxSnap == 2
\* poll chains (poll closures awaiting a fetch or a timer) alive at once
MaxChains == 2
\* detections the remote source sends in one run, over all its snapshots
MaxDelivered == 2

(***************************************************************************)
(* Values.  track_id is a number, null, or missing (undefined); the two    *)
(* non-numbers are encoded as negative integers so that they can sit in    *)
(* the same Set as the numbers, as they do in JavaScript.                  *)
(***************************************************************************)
NullId == -1
UndefinedId == -2
TrackIds == 1..MaxTrack
TrackValues == TrackIds \cup {NullId, UndefinedId}
ClassIds == {5, 7}
\* confidence in tenths
Confidences == {4, 9}

Detection ==
    [track_id : TrackValues, class_id : ClassIds,
     confidence : Confidences, is_anomaly : BOOLEAN]

\* the value of a Detection | null reference that is null
NoDetection ==
    [track_id |-> NullId, class_id |-> 0, confidence |-> 0, is_anomaly |-> FALSE]

RECURSIVE SeqsUpTo(_, _)
SeqsUpTo(S, n) ==
    IF n = 0 THEN {<<>>}
    ELSE LET shorter == SeqsUpTo(S, n - 1)
         IN  shorter \cup {Append(s, d) : s \in {t \in shorter : Len(t) = n - 1}, d \in S}

\* one detection for each track value, of one class, confidence and flag
PlainDetections ==
    {d \in Detection : d.class_id = 5 /\ d.confidence = 4 /\ ~d.is_anomaly}

\* the responses of the remote source in the runs that explore the aggregates
Snapshots == SeqsUpTo(Detection, MaxSnap)
SnapshotsOfLen == [n \in 0..MaxSnap |-> {s \in Snapshots : Len(s) = n}]

\* the responses in the runs that explore the poll loop
PollSnapshots == SeqsUpTo(PlainDetections, 1)

\* malformed responses: a detections array with a null element.  The forEach
\* never reads past it, so it is the last element here.  (A response whose
\* detections is not an array makes forEach itself throw, which acts as the
\* null element in first place; a response without detections acts as [].)
MalformedSnapshots == {Append(s, NoDetection) : s \in PollSnapshots}

VARIABLES
    data,                 \* detections store: last response, or null
    loading,              \* detections store: loading flag
    error,                \* detections store: TRUE iff error.value is a message
    detectionCounts,      \* detections store: class_id -> {detection, numDetects}
    seenTrackingIds,      \* detections store: admitted track ids
    intervalId,           \* detections store: 0 (null) or a timer id
    timers,               \* window: ids of the pending timeouts whose callback is poll
    inFlight,             \* getDetections() calls not yet settled
    totalDetections,      \* analytics store
    totalConfidence,      \* analytics store
    maxDetection,         \* analytics store
    minDetection,         \* analytics store
    objectCounts,         \* analytics store: class_id -> count
    anomalyCounts,        \* analytics store: class_id -> count
    classInfo,            \* analytics store: class ids with a cached class name
    analyticsSeenTrackingIds, \* analytics store: admitted track ids
    watcherPending,       \* Home view: the watcher job is queued
    started,              \* history: the last lifecycle call was startPolling
    delivered,            \* history: detections received so far, over all snapshots
    firstDelivered,       \* history: per track value, first detection received by
                          \*   the detections store since resetCounts, in order
    analyticsFirstDelivered \* history: the same for the analytics store since
                          \*   resetAnalytics

pollVars == <<intervalId, timers, inFlight>>
detStoreVars == <<detectionCounts, seenTrackingIds>>
analyticsVars ==
    <<totalDetections, totalConfidence, maxDetection, minDetection,
      objectCounts, anomalyCounts, classInfo, analyticsSeenTrackingIds>>
vars ==
    <<data, loading, error, detectionCounts, seenTrackingIds, intervalId, timers,
      inFlight, totalDetections, totalConfidence, maxDetection, minDetection,
      objectCounts, anomalyCounts, classInfo, analyticsSeenTrackingIds,
      watcherPending, started, delivered, firstDelivered, analyticsFirstDelivered>>

NoData == [isNull |-> TRUE, detections |-> <<>>]
\* the empty object {}
EmptyMap == [c \in {} |-> 0]

Init ==
    /\ data = NoData
    /\ loading = FALSE
    /\ error = FALSE
    /\ detectionCounts = EmptyMap
    /\ seenTrackingIds = {}
    /\ intervalId = 0
    /\ timers = {}
    /\ inFlight = 0
    /\ totalDetections = 0
    /\ totalConfidence = 0
    /\ maxDetection = NoDetection
    /\ minDetection = NoDetection
    /\ objectCounts = EmptyMap
    /\ anomalyCounts = EmptyMap
    /\ classInfo = {}
    /\ analyticsSeenTrackingIds = {}
    /\ watcherPending = FALSE
    /\ started = FALSE
    /\ delivered = 0
    /\ firstDelivered = <<>>
    /\ analyticsFirstDelivered = <<>>

(***************************************************************************)
(* Detections store: the forEach callback of fetchDetections, applied to   *)
(* the pair st = [seen, counts] of seenTrackingIds and detectionCounts.    *)
(* det.track_id === null is false for a missing track_id (undefined).      *)
(***************************************************************************)
\* AdmitDetection without the seenTrackingIds.has(det.track_id) test
AdmitDetectionNoDedup(st, det) ==
    IF det.track_id = NullId THEN st
    ELSE LET id == det.class_id
             seen2 == st.seen \cup {det.track_id}
         IN  IF id \notin DOMAIN st.counts
             THEN [seen |-> seen2,
                   counts |-> st.counts @@ (id :> [detection |-> det, numDetects |-> 1])]
             ELSE LET existing == st.counts[id]
                      best == IF det.confidence > existing.detection.confidence
                              THEN det ELSE existing.detection
                  IN  [seen |-> seen2,
                       counts |-> [st.counts EXCEPT ![id] =
                                     [detection |-> best,
                                      numDetects |-> existing.numDetects + 1]]]

\* AdmitDetection without existing.numDetects++
AdmitDetectionNoIncrement(st, det) ==
    IF det.track_id = NullId THEN st
    ELSE IF det.track_id \in st.seen THEN st
    ELSE LET id == det.class_id
             seen2 == st.seen \cup {det.track_id}
         IN  IF id \notin DOMAIN st.counts
             THEN [seen |-> seen2,
                   counts |-> st.counts @@ (id :> [detection |-> det, numDetects |-> 1])]
             ELSE LET existing == st.counts[id]
                      best == IF det.confidence > existing.detection.confidence
                              THEN det ELSE existing.detection
                  IN  [seen |-> seen2,
                       counts |-> [st.counts EXCEPT ![id] =
                                     [detection |-> best,
                                      numDetects |-> existing.numDetects]]]

\* AdmitDetection replacing the best detection on >= instead of >
AdmitDetectionTiesLast(st, det) ==
    IF det.track_id = NullId THEN st
    ELSE IF det.track_id \in st.seen THEN st
    ELSE LET id == det.class_id
             seen2 == st.seen \cup {det.track_id}
         IN  IF id \notin DOMAIN st.counts
             THEN [seen |-> seen2,
                   counts |-> st.counts @@ (id :> [detection |-> det, numDetects |-> 1])]
             ELSE LET existing == st.counts[id]
                      best == IF det.confidence >= existing.detection.confidence
                              THEN det ELSE existing.detection
                  IN  [seen |-> seen2,
                       counts |-> [st.counts EXCEPT ![id] =
                                     [detection |-> best,
                                      numDetects |-> existing.numDetects + 1]]]

\* AdmitDetection keeping in the admission set the last admitted track id only
AdmitDetectionForgetsSeen(st, det) ==
    IF det.track_id = NullId THEN st
    ELSE IF det.track_id \in st.seen THEN st
    ELSE LET id == det.class_id
             seen2 == {det.track_id}
         IN  IF id \notin DOMAIN st.counts
             THEN [seen |-> seen2,
                   counts |-> st.counts @@ (id :> [detection |-> det, numDetects |-> 1])]
             ELSE LET existing == st.counts[id]
                      best == IF det.confidence > existing.detection.confidence
                              THEN det ELSE existing.detection
                  IN  [seen |-> seen2,
                       counts |-> [st.counts EXCEPT ![id] =
                                     [detection |-> best,
                                      numDetects |-> existing.numDetects + 1]]]

AdmitDetection(st, det) ==
    IF det.track_id = NullId THEN st
    ELSE IF det.track_id \in st.seen THEN st
    ELSE LET id == det.class_id
             seen2 == st.seen \cup {det.track_id}
         IN  IF id \notin DOMAIN st.counts
             THEN [seen |-> seen2,
                   counts |-> st.counts @@ (id :> [detection |-> det, numDetects |-> 1])]
             ELSE LET existing == st.counts[id]
                      best == IF det.confidence > existing.detection.confidence
                              THEN det ELSE existing.detection
                  IN  [seen |-> seen2,
                       counts |-> [st.counts EXCEPT ![id] =
                                     [detection |-> best,
                                      numDetects |-> existing.numDetects + 1]]]

\* ForEachAdmit visiting the elements from the last to the first
RECURSIVE ForEachAdmitBackwards(_, _)
ForEachAdmitBackwards(st, detections) ==
    IF detections = <<>> THEN st
    ELSE LET last == detections[Len(detections)]
             front == SubSeq(detections, 1, Len(detections) - 1)
         IN  IF last = NoDetection THEN st
             ELSE ForEachAdmitBackwards(AdmitDetection(st, last), front)

\* detectionsArray.forEach(...).  An element that is null makes det.track_id
\* throw a TypeError: the loop ends there, with the elements before it admitted.
RECURSIVE ForEachAdmit(_, _)
ForEachAdmit(st, detections) ==
    IF detections = <<>> THEN st
    ELSE IF Head(detections) = NoDetection THEN st
    ELSE ForEachAdmit(AdmitDetection(st, Head(detections)), Tail(detections))

(***************************************************************************)
(* Analytics store: the forEach callback of processDetections, applied to  *)
(* the record of the store's refs.                                         *)
(***************************************************************************)
\* Bump storing 1 whatever the class's earlier count
BumpOverwrite(counts, id) ==
    IF id \in DOMAIN counts
    THEN [counts EXCEPT ![id] = 1]
    ELSE counts @@ (id :> 1)

\* counts[id] = (counts[id] ?? 0) + 1
Bump(counts, id) ==
    IF id \in DOMAIN counts
    THEN [counts EXCEPT ![id] = @ + 1]
    ELSE counts @@ (id :> 1)

\* ProcessDetection recording the class name of anomalous detections only
ProcessDetectionNamesAnomalies(a, det) ==
    IF det.track_id = NullId THEN a
    ELSE IF det.track_id \in a.seen THEN a
    ELSE [seen |-> a.seen \cup {det.track_id},
          totalDetections |-> a.totalDetections + 1,
          totalConfidence |-> a.totalConfidence + det.confidence,
          classInfo |-> IF det.is_anomaly THEN a.classInfo \cup {det.class_id}
                        ELSE a.classInfo,
          maxDetection |->
              IF a.maxDetection = NoDetection
                 \/ det.confidence > a.maxDetection.confidence
              THEN det ELSE a.maxDetection,
          minDetection |->
              IF a.minDetection = NoDetection
                 \/ det.confidence < a.minDetection.confidence
              THEN det ELSE a.minDetection,
          anomalyCounts |->
              IF det.is_anomaly THEN Bump(a.anomalyCounts, det.class_id)
              ELSE a.anomalyCounts,
          objectCounts |->
              IF det.is_anomaly THEN a.objectCounts
              ELSE Bump(a.objectCounts, det.class_id)]

\* ProcessDetection assigning the confidence to totalConfidence instead of
\* adding it
ProcessDetectionLastConfidence(a, det) ==
    IF det.track_id = NullId THEN a
    ELSE IF det.track_id \in a.seen THEN a
    ELSE [seen |-> a.seen \cup {det.track_id},
          totalDetections |-> a.totalDetections + 1,
          totalConfidence |-> det.confidence,
          classInfo |-> a.classInfo \cup {det.class_id},
          maxDetection |->
              IF a.maxDetection = NoDetection
                 \/ det.confidence > a.maxDetection.confidence
              THEN det ELSE a.maxDetection,
          minDetection |->
              IF a.minDetection = NoDetection
                 \/ det.confidence < a.minDetection.confidence
              THEN det ELSE a.minDetection,
          anomalyCounts |->
              IF det.is_anomaly THEN Bump(a.anomalyCounts, det.class_id)
              ELSE a.anomalyCounts,
          objectCounts |->
              IF det.is_anomaly THEN a.objectCounts
              ELSE Bump(a.objectCounts, det.class_id)]

\* ProcessDetection replacing the extremes on >= and <= instead of > and <
ProcessDetectionTiesLast(a, det) ==
    IF det.track_id = NullId THEN a
    ELSE IF det.track_id \in a.seen THEN a
    ELSE [seen |-> a.seen \cup {det.track_id},
          totalDetections |-> a.totalDetections + 1,
          totalConfidence |-> a.totalConfidence + det.confidence,
          classInfo |-> a.classInfo \cup {det.class_id},
          maxDetection |->
              IF a.maxDetection = NoDetection
                 \/ det.confidence >= a.maxDetection.confidence
              THEN det ELSE a.maxDetection,
          minDetection |->
              IF a.minDetection = NoDetection
                 \/ det.confidence <= a.minDetection.confidence
              THEN det ELSE a.minDetection,
          anomalyCounts |->
              IF det.is_anomaly THEN Bump(a.anomalyCounts, det.class_id)
              ELSE a.anomalyCounts,
          objectCounts |->
              IF det.is_anomaly THEN a.objectCounts
              ELSE Bump(a.objectCounts, det.class_id)]

\* ProcessDetection incrementing both count maps
ProcessDetectionBumpsBoth(a, det) ==
    IF det.track_id = NullId THEN a
    ELSE IF det.track_id \in a.seen THEN a
    ELSE [seen |-> a.seen \cup {det.track_id},
          totalDetections |-> a.totalDetections + 1,
          totalConfidence |-> a.totalConfidence + det.confidence,
          classInfo |-> a.classInfo \cup {det.class_id},
          maxDetection |->
              IF a.maxDetection = NoDetection
                 \/ det.confidence > a.maxDetection.confidence
              THEN det ELSE a.maxDetection,
          minDetection |->
              IF a.minDetection = NoDetection
                 \/ det.confidence < a.minDetection.confidence
              THEN det ELSE a.minDetection,
          anomalyCounts |-> Bump(a.anomalyCounts, det.class_id),
          objectCounts |-> Bump(a.objectCounts, det.class_id)]

ProcessDetection(a, det) ==
    IF det.track_id = NullId THEN a
    ELSE IF det.track_id \in a.seen THEN a
    ELSE [seen |-> a.seen \cup {det.track_id},
          totalDetections |-> a.totalDetections + 1,
          totalConfidence |-> a.totalConfidence + det.confidence,
          classInfo |-> a.classInfo \cup {det.class_id},
          maxDetection |->
              IF a.maxDetection = NoDetection
                 \/ det.confidence > a.maxDetection.confidence
              THEN det ELSE a.maxDetection,
          minDetection |->
              IF a.minDetection = NoDetection
                 \/ det.confidence < a.minDetection.confidence
              THEN det ELSE a.minDetection,
          anomalyCounts |->
              IF det.is_anomaly THEN Bump(a.anomalyCounts, det.class_id)
              ELSE a.anomalyCounts,
          objectCounts |->
              IF det.is_anomaly THEN a.objectCounts
              ELSE Bump(a.objectCounts, det.class_id)]

\* detections.forEach(...), which a null element ends with a TypeError as well
RECURSIVE processDetections(_, _)
processDetections(a, detections) ==
    IF detections = <<>> THEN a
    ELSE IF Head(detections) = NoDetection THEN a
    ELSE processDetections(ProcessDetection(a, Head(detections)), Tail(detections))

AnalyticsState ==
    [seen |-> analyticsSeenTrackingIds,
     totalDetections |-> totalDetections,
     totalConfidence |-> totalConfidence,
     classInfo |-> classInfo,
     maxDetection |-> maxDetection,
     minDetection |-> minDetection,
     anomalyCounts |-> anomalyCounts,
     objectCounts |-> objectCounts]

(***************************************************************************)
(* History: the first detection received for each track value, in order of *)
(* receipt.  It records what the remote source sent, not what was counted; *)
(* it ends, as the forEach does, at an element that is null.               *)
(***************************************************************************)
RECURSIVE RecordFirst(_, _)
RecordFirst(log, detections) ==
    IF detections = <<>> THEN log
    ELSE IF Head(detections) = NoDetection THEN log
    ELSE LET d == Head(detections)
             known == \E i \in 1..Len(log) : log[i].track_id = d.track_id
         IN  RecordFirst(IF known THEN log ELSE Append(log, d), Tail(detections))

(***************************************************************************)
(* Poll loop.                                                              *)
(***************************************************************************)
\* The id window.setTimeout returns: one that names no pending timer.  Rearm
\* overwrites intervalId with it, so an id is reused only once nothing holds it.
FreshTimer ==
    CHOOSE t \in 1..MaxChains :
        /\ t \notin timers
        /\ \A u \in 1..(t - 1) : u \in timers

\* fetchDetections up to its await: the flags are set and the request leaves
BeginFetch ==
    /\ loading' = TRUE
    /\ error' = FALSE
    /\ inFlight' = inFlight + 1

\* poll after its await: intervalId = window.setTimeout(poll, intervalMs)
Rearm ==
    /\ intervalId' = FreshTimer
    /\ timers' = timers \cup {FreshTimer}

StartPolling ==
    /\ ~watcherPending
    /\ started' = TRUE
    /\ IF intervalId # 0
       THEN UNCHANGED <<loading, error, inFlight>>
       ELSE /\ inFlight + Cardinality(timers) < MaxChains
            /\ BeginFetch
    /\ UNCHANGED <<data, detStoreVars, intervalId, timers, analyticsVars,
                   watcherPending, delivered, firstDelivered, analyticsFirstDelivered>>

\* StopPolling clearing the class summaries and the admission set as well
StopPollingResetsCounts ==
    /\ ~watcherPending
    /\ started' = FALSE
    /\ IF intervalId # 0
       THEN /\ timers' = timers \ {intervalId}
            /\ intervalId' = 0
       ELSE UNCHANGED <<intervalId, timers>>
    /\ detectionCounts' = EmptyMap
    /\ seenTrackingIds' = {}
    /\ UNCHANGED <<data, loading, error, inFlight, analyticsVars,
                   watcherPending, delivered, firstDelivered, analyticsFirstDelivered>>

StopPolling ==
    /\ ~watcherPending
    /\ started' = FALSE
    /\ IF intervalId # 0
       THEN /\ timers' = timers \ {intervalId}
            /\ intervalId' = 0
       ELSE UNCHANGED <<intervalId, timers>>
    /\ UNCHANGED <<data, loading, error, detStoreVars, inFlight, analyticsVars,
                   watcherPending, delivered, firstDelivered, analyticsFirstDelivered>>

\* a pending timeout fires: poll runs up to its await
TimerFire ==
    /\ ~watcherPending
    /\ \E t \in timers : timers' = timers \ {t}
    /\ BeginFetch
    /\ UNCHANGED <<data, detStoreVars, intervalId, analyticsVars, watcherPending,
                   started, delivered, firstDelivered, analyticsFirstDelivered>>

\* getDetections() resolves with a response whose detections are snapshot
FetchSuccess(snapshot) ==
    /\ ~watcherPending
    /\ inFlight > 0
    /\ data' = [isNull |-> FALSE, detections |-> snapshot]
    /\ LET st == ForEachAdmit([seen |-> seenTrackingIds, counts |-> detectionCounts],
                              snapshot)
       IN  /\ seenTrackingIds' = st.seen
           /\ detectionCounts' = st.counts
    /\ loading' = FALSE
    /\ inFlight' = inFlight - 1
    /\ Rearm
    /\ watcherPending' = TRUE
    /\ delivered' = delivered + Len(snapshot)
    /\ firstDelivered' = RecordFirst(firstDelivered, snapshot)
    /\ UNCHANGED <<error, analyticsVars, started, analyticsFirstDelivered>>

\* getDetections() resolves with a malformed response: data.value is assigned,
\* the forEach throws at the null element, the catch block reports the error
FetchMalformed(snapshot) ==
    /\ ~watcherPending
    /\ inFlight > 0
    /\ data' = [isNull |-> FALSE, detections |-> snapshot]
    /\ LET st == ForEachAdmit([seen |-> seenTrackingIds, counts |-> detectionCounts],
                              snapshot)
       IN  /\ seenTrackingIds' = st.seen
           /\ detectionCounts' = st.counts
    /\ error' = TRUE
    /\ loading' = FALSE
    /\ inFlight' = inFlight - 1
    /\ Rearm
    /\ watcherPending' = TRUE
    /\ delivered' = delivered + Len(snapshot)
    /\ firstDelivered' = RecordFirst(firstDelivered, snapshot)
    /\ UNCHANGED <<analyticsVars, started, analyticsFirstDelivered>>

\* FetchFailure assigning data.value = null in the catch block
FetchFailureClearsData ==
    /\ ~watcherPending
    /\ inFlight > 0
    /\ data' = NoData
    /\ error' = TRUE
    /\ loading' = FALSE
    /\ inFlight' = inFlight - 1
    /\ Rearm
    /\ UNCHANGED <<detStoreVars, analyticsVars, watcherPending, started,
                   delivered, firstDelivered, analyticsFirstDelivered>>

\* FetchFailure whose poll continuation arms no timer
FetchFailureNoRearm ==
    /\ ~watcherPending
    /\ inFlight > 0
    /\ error' = TRUE
    /\ loading' = FALSE
    /\ inFlight' = inFlight - 1
    /\ UNCHANGED <<data, detStoreVars, intervalId, timers, analyticsVars,
                   watcherPending, started, delivered, firstDelivered,
                   analyticsFirstDelivered>>

\* getDetections() rejects
FetchFailure ==
    /\ ~watcherPending
    /\ inFlight > 0
    /\ error' = TRUE
    /\ loading' = FALSE
    /\ inFlight' = inFlight - 1
    /\ Rearm
    /\ UNCHANGED <<data, detStoreVars, analyticsVars, watcherPending, started,
                   delivered, firstDelivered, analyticsFirstDelivered>>

\* resetCounts without detectionCounts.value = {}
resetCountsKeepsSummaries ==
    /\ ~watcherPending
    /\ seenTrackingIds' = {}
    /\ firstDelivered' = <<>>
    /\ UNCHANGED <<data, loading, error, pollVars, detectionCounts, analyticsVars,
                   watcherPending, started, delivered, analyticsFirstDelivered>>

resetCounts ==
    /\ ~watcherPending
    /\ detectionCounts' = EmptyMap
    /\ seenTrackingIds' = {}
    /\ firstDelivered' = <<>>
    /\ UNCHANGED <<data, loading, error, pollVars, analyticsVars, watcherPending,
                   started, delivered, analyticsFirstDelivered>>

resetAnalytics ==
    /\ ~watcherPending
    /\ totalDetections' = 0
    /\ totalConfidence' = 0
    /\ maxDetection' = NoDetection
    /\ minDetection' = NoDetection
    /\ objectCounts' = EmptyMap
    /\ anomalyCounts' = EmptyMap
    /\ classInfo' = {}
    /\ analyticsSeenTrackingIds' = {}
    /\ analyticsFirstDelivered' = <<>>
    /\ UNCHANGED <<data, loading, error, pollVars, detStoreVars, watcherPending,
                   started, delivered, firstDelivered>>

\* the Home view's watcher on detectionsStore.detections: updateDetections()
updateDetections ==
    /\ watcherPending
    /\ watcherPending' = FALSE
    /\ LET currentDetections == data.detections
           a == IF Len(currentDetections) > 0
                THEN processDetections(AnalyticsState, currentDetections)
                ELSE AnalyticsState
       IN  /\ analyticsSeenTrackingIds' = a.seen
           /\ totalDetections' = a.totalDetections
           /\ totalConfidence' = a.totalConfidence
           /\ classInfo' = a.classInfo
           /\ maxDetection' = a.maxDetection
           /\ minDetection' = a.minDetection
           /\ anomalyCounts' = a.anomalyCounts
           /\ objectCounts' = a.objectCounts
           /\ analyticsFirstDelivered' =
                  RecordFirst(analyticsFirstDelivered, currentDetections)
    /\ UNCHANGED <<data, loading, error, pollVars, detStoreVars, started, delivered,
                   firstDelivered>>

(***************************************************************************)
(* Spec: the stores under every call order of their functions, with the    *)
(* small responses of PollSnapshots.  A run receives MaxDelivered          *)
(* detections at most.                                                     *)
(***************************************************************************)
WithinBudget(snapshot) == delivered + Len(snapshot) <= MaxDelivered

Next ==
    \/ StartPolling
    \/ StopPolling
    \/ TimerFire
    \/ \E snapshot \in PollSnapshots :
          /\ WithinBudget(snapshot)
          /\ FetchSuccess(snapshot)
    \/ \E snapshot \in MalformedSnapshots :
          /\ WithinBudget(snapshot)
          /\ FetchMalformed(snapshot)
    \/ FetchFailure
    \/ resetCounts
    \/ resetAnalytics
    \/ updateDetections

Spec == Init /\ [][Next]_vars

(***************************************************************************)
(* AggSpec: the Home view mounted once (one startPolling call, never       *)
(* stopped), with every response of Snapshots.                             *)
(***************************************************************************)
onMounted ==
    /\ ~started
    /\ StartPolling

NextAgg ==
    \/ onMounted
    \/ TimerFire
    \/ \E n \in 0..MaxSnap :
          /\ delivered + n <= MaxDelivered
          /\ \E snapshot \in SnapshotsOfLen[n] : FetchSuccess(snapshot)
    \/ resetCounts
    \/ resetAnalytics
    \/ updateDetections

AggSpec == Init /\ [][NextAgg]_vars

(***************************************************************************)
(* LiveSpec: the loop is started and never stopped.  The browser runs      *)
(* every pending timeout callback and flushes every queued watcher job,    *)
(* and every getDetections() call settles (the remote source answers or    *)
(* the request fails): each of the three is weakly fair.                   *)
(***************************************************************************)
FetchSettles ==
    \/ \E snapshot \in PollSnapshots :
          /\ WithinBudget(snapshot)
          /\ FetchSuccess(snapshot)
    \/ \E snapshot \in MalformedSnapshots :
          /\ WithinBudget(snapshot)
          /\ FetchMalformed(snapshot)
    \/ FetchFailure

NextLive ==
    \/ StartPolling
    \/ TimerFire
    \/ FetchSettles
    \/ resetCounts
    \/ resetAnalytics
    \/ updateDetections

LiveSpec ==
    /\ Init
    /\ [][NextLive]_vars
    /\ WF_vars(TimerFire)
    /\ WF_vars(FetchSettles)
    /\ WF_vars(updateDetections)

(***************************************************************************)
(* FreqSpec: the Home view mounted once, the remote source reporting one   *)
(* detection per response, each with a numeric track id, and one more      *)
(* track id and one more detection per run than in the other               *)
(* specifications: the runs that fill the frequency tables.                *)
(***************************************************************************)
FreqDetections ==
    [track_id : 1..(MaxTrack + 1), class_id : ClassIds,
     confidence : {4}, is_anomaly : BOOLEAN]

NextFreq ==
    \/ onMounted
    \/ TimerFire
    \/ \E det \in FreqDetections :
          /\ delivered <= MaxDelivered
          /\ FetchSuccess(<<det>>)
    \/ updateDetections

FreqSpec == Init /\ [][NextFreq]_vars

(***************************************************************************)
(* Accessors and helpers of the properties.                                *)
(***************************************************************************)
Range(s) == {s[i] : i \in 1..Len(s)}

RECURSIVE SumOver(_, _)
SumOver(f, S) ==
    IF S = {} THEN 0
    ELSE LET x == CHOOSE y \in S : TRUE
         IN  f[x] + SumOver(f, S \ {x})

\* Object.values(objectCounts.value).reduce((a, b) => a + b, 0)
totalObjects == SumOver(objectCounts, DOMAIN objectCounts)
\* Object.values(anomalyCounts.value).reduce((a, b) => a + b, 0)
totalAnomalies == SumOver(anomalyCounts, DOMAIN anomalyCounts)

\* numDetects of a class, 0 for a class without a summary
NumDetects(c) ==
    IF c \in DOMAIN detectionCounts THEN detectionCounts[c].numDetects ELSE 0
SumNumDetects == SumOver([c \in ClassIds |-> NumDetects(c)], ClassIds)

\* positions of the receipt log whose detection the detections store admitted
\* with class c: its track value is in the admission set
AdmittedOfClass(c) ==
    {i \in 1..Len(firstDelivered) :
        /\ firstDelivered[i].track_id \in seenTrackingIds
        /\ firstDelivered[i].class_id = c}

\* numeric track ids received by a store since its reset
TrackedIn(log) == {log[i].track_id : i \in 1..Len(log)} \cap TrackIds

aggregates == <<detStoreVars, analyticsVars>>

(***************************************************************************)
(* Computed accessors of the detections store.  Object.values and          *)
(* Object.entries visit the integer-like keys of an object in ascending    *)
(* numeric order, whatever the order in which the keys were added.         *)
(***************************************************************************)
RECURSIVE KeysAscending(_)
KeysAscending(S) ==
    IF S = {} THEN <<>>
    ELSE LET m == CHOOSE x \in S : \A y \in S : x <= y
         IN  <<m>> \o KeysAscending(S \ {m})

\* Object.values(detectionCounts.value)
groupedDetections ==
    LET keys == KeysAscending(DOMAIN detectionCounts)
    IN  [i \in 1..Len(keys) |-> detectionCounts[keys[i]]]

\* Number(boolean)
Number(b) == IF b THEN 1 ELSE 0

\* the comparator with its operands exchanged: anomalous summaries last
AnomalyLast(a, b) ==
    Number(a.detection.is_anomaly) - Number(b.detection.is_anomaly)

\* the comparator (a, b) => Number(b...is_anomaly) - Number(a...is_anomaly)
AnomalyFirst(a, b) ==
    Number(b.detection.is_anomaly) - Number(a.detection.is_anomaly)

\* Array.prototype.sort is stable: x goes before the first element that the
\* comparator orders after it, and after every element that compares equal
RECURSIVE InsertStable(_, _)
InsertStable(sorted, x) ==
    IF sorted = <<>> THEN <<x>>
    ELSE IF AnomalyFirst(Head(sorted), x) > 0 THEN <<x>> \o sorted
    ELSE <<Head(sorted)>> \o InsertStable(Tail(sorted), x)

RECURSIVE SortStable(_)
SortStable(s) ==
    IF s = <<>> THEN <<>>
    ELSE InsertStable(SortStable(SubSeq(s, 1, Len(s) - 1)), s[Len(s)])

groupedDetectionsSorted == SortStable(groupedDetections)

IsAnomalyEntry(entry) == entry.detection.is_anomaly
groupedAnomalies == SelectSeq(groupedDetections, IsAnomalyEntry)

\* data.value?.detections ?? []
detections == IF data.isNull THEN <<>> ELSE data.detections

IsAnomaly(d) == d.is_anomaly
anomalies == SelectSeq(detections, IsAnomaly)

\* has_anomaly read from the snapshot last received instead of the summaries
has_anomalyOfSnapshot == Len(anomalies) > 0

has_anomaly == Len(groupedAnomalies) > 0

(***************************************************************************)
(* Computed accessors of the analytics store.  A quotient of two counts is *)
(* kept exact, as the pair <<numerator, denominator>> in lowest terms; the *)
(* number 0 is <<0, 1>>.                                                   *)
(***************************************************************************)
RECURSIVE Gcd(_, _)
Gcd(a, b) == IF b = 0 THEN a ELSE Gcd(b, a % b)

\* a / b for b # 0
Quotient(a, b) == LET g == Gcd(a, b) IN <<a \div g, b \div g>>
Zero == <<0, 1>>

averageConfidence ==
    IF totalDetections = 0 THEN Zero ELSE Quotient(totalConfidence, totalDetections)
totalObjectDistribution ==
    IF totalDetections = 0 THEN Zero ELSE Quotient(totalObjects, totalDetections)
totalAnomalyDistribution ==
    IF totalDetections = 0 THEN Zero ELSE Quotient(totalAnomalies, totalDetections)

\* class_name "Unknown"; a cached class name is written as its class id
Unknown == 0

\* buildFrequencyList returning [] for a divisor of 1 as well
buildFrequencyListFromTwo(counts, divisor) ==
    IF divisor <= 1 THEN <<>>
    ELSE LET keys == KeysAscending(DOMAIN counts)
         IN  [i \in 1..Len(keys) |->
                 [class_id |-> keys[i],
                  class_name |-> IF keys[i] \in classInfo THEN keys[i] ELSE Unknown,
                  count |-> counts[keys[i]],
                  frequency |-> Quotient(counts[keys[i]], divisor)]]

buildFrequencyList(counts, divisor) ==
    IF divisor = 0 THEN <<>>
    ELSE LET keys == KeysAscending(DOMAIN counts)
         IN  [i \in 1..Len(keys) |->
                 [class_id |-> keys[i],
                  class_name |-> IF keys[i] \in classInfo THEN keys[i] ELSE Unknown,
                  count |-> counts[keys[i]],
                  frequency |-> Quotient(counts[keys[i]], divisor)]]

objectFrequencyByObjects == buildFrequencyList(objectCounts, totalObjects)
anomalyFrequencyByAnomalies == buildFrequencyList(anomalyCounts, totalAnomalies)
objectFrequencyByDetections == buildFrequencyList(objectCounts, totalDetections)
anomalyFrequencyByDetections == buildFrequencyList(anomalyCounts, totalDetections)

\* (x).toFixed(2) of a quotient x >= 0, in hundredths: the nearest multiple of
\* 0.01, the larger one on a tie
toFixed2(x) == (2 * 100 * x[1] + x[2]) \div (2 * x[2])

\* getFrequencyFromList without the multiplication by 100
getFrequencyFromListAsFraction(list, classId) ==
    LET found == {i \in 1..Len(list) : list[i].class_id = classId}
    IN  IF found = {} THEN 0
        ELSE LET item == list[CHOOSE i \in found : \A j \in found : i <= j]
             IN  toFixed2(item.frequency)

\* the percentage in hundredths of a percent: 10000 is 100.00
getFrequencyFromList(list, classId) ==
    LET found == {i \in 1..Len(list) : list[i].class_id = classId}
    IN  IF found = {} THEN 0
        ELSE LET item == list[CHOOSE i \in found : \A j \in found : i <= j]
             IN  toFixed2(<<item.frequency[1] * 100, item.frequency[2]>>)

\* what the accessors over the aggregates return
AggregateAccessors ==
    <<groupedDetections, groupedDetectionsSorted, groupedAnomalies, has_anomaly,
      totalDetections, totalObjects, totalAnomalies, maxDetection, minDetection,
      averageConfidence, totalObjectDistribution, totalAnomalyDistribution,
      objectFrequencyByObjects, anomalyFrequencyByAnomalies,
      objectFrequencyByDetections, anomalyFrequencyByDetections>>

\* what they return on stores just constructed
FreshAggregateAccessors ==
    <<<<>>, <<>>, <<>>, FALSE, 0, 0, 0, NoDetection, NoDetection,
      Zero, Zero, Zero, <<>>, <<>>, <<>>, <<>>>>

\* what the accessors over the last response return
SnapshotAccessors == <<detections, anomalies>>
FreshSnapshotAccessors == <<<<>>, <<>>>>

(***************************************************************************)
(* C1.  At most one fetch (getDetections call) is in flight at any time.   *)
(* Refuted by the code: startPolling tests intervalId, which stays null    *)
(* until the first fetch has settled.                                      *)
(***************************************************************************)
C1_AtMostOneFetchInFlight == inFlight <= 1

(***************************************************************************)
(* C2.  While the loop is stopped (the last lifecycle call was             *)
(* stopPolling), a fetch that resolves changes no aggregate of either      *)
(* store and arms no timer.  Refuted by the code: fetchDetections and poll *)
(* never look at whether the loop was stopped.                             *)
(***************************************************************************)
C2_StoppedFetchResolvesSilently ==
    [][(~started /\ inFlight' < inFlight)
          => (UNCHANGED aggregates /\ timers' = timers /\ intervalId' = intervalId)]_vars

(***************************************************************************)
(* C3.  startPolling is idempotent: once the loop is started, a fetch is   *)
(* issued only by a timer firing, never by a further startPolling, so the  *)
(* number of poll chains does not grow.  Refuted by the code during the    *)
(* first fetch after a start.                                              *)
(***************************************************************************)
C3_StartIsIdempotent ==
    [][(started /\ inFlight' > inFlight) => timers' # timers]_vars

(***************************************************************************)
(* C4.  Between resets each numeric track id is admitted exactly once, by  *)
(* the first detection that carried it: every numeric id received is in    *)
(* the admission set, the admitted ids are counted once each, and every    *)
(* best / max / min detection is the first detection received for its      *)
(* track id, never a later re-observation.  Both stores.                   *)
(***************************************************************************)
C4_TrackAdmittedOnce ==
    /\ TrackedIn(firstDelivered) = seenTrackingIds \cap TrackIds
    /\ TrackedIn(analyticsFirstDelivered) = analyticsSeenTrackingIds \cap TrackIds
    /\ SumNumDetects = Cardinality(seenTrackingIds)
    /\ totalDetections = Cardinality(analyticsSeenTrackingIds)
    /\ \A c \in DOMAIN detectionCounts :
           detectionCounts[c].detection \in Range(firstDelivered)
    /\ maxDetection # NoDetection => maxDetection \in Range(analyticsFirstDelivered)
    /\ minDetection # NoDetection => minDetection \in Range(analyticsFirstDelivered)

\* an admitted track was received again, same class, with a higher confidence,
\* and its class summary still holds the first detection with count 1
C4_Witness ==
    /\ ~watcherPending
    /\ \E i \in 1..Len(data.detections) : \E j \in 1..Len(firstDelivered) :
           LET d == data.detections[i]
               f == firstDelivered[j]
           IN  /\ d.track_id \in TrackIds
               /\ d.track_id = f.track_id
               /\ d.class_id = f.class_id
               /\ d.confidence > f.confidence
               /\ detectionCounts[f.class_id] = [detection |-> f, numDetects |-> 1]
               /\ maxDetection = f
               /\ totalDetections = 1

(***************************************************************************)
(* C5.  totalDetections equals the number of distinct non-absent track ids *)
(* among the detections the analytics store has processed since its reset. *)
(* Refuted by the code for a detection without a track_id field (C6).      *)
(***************************************************************************)
C5_TotalIsDistinctTracked ==
    totalDetections = Cardinality(TrackedIn(analyticsFirstDelivered))

(***************************************************************************)
(* C6.  A detection whose track_id is absent (null or missing) is never    *)
(* counted: no absent value is in an admission set, and no best, max or    *)
(* min detection has an absent track_id.  Refuted by the code: a missing   *)
(* track_id is undefined, which is not === null.                           *)
(***************************************************************************)
C6_AbsentNeverCounted ==
    /\ seenTrackingIds \subseteq TrackIds
    /\ analyticsSeenTrackingIds \subseteq TrackIds
    /\ \A c \in DOMAIN detectionCounts :
           detectionCounts[c].detection.track_id \in TrackIds
    /\ maxDetection # NoDetection => maxDetection.track_id \in TrackIds
    /\ minDetection # NoDetection => minDetection.track_id \in TrackIds

(***************************************************************************)
(* C7.  totalObjects + totalAnomalies = totalDetections in every state.    *)
(***************************************************************************)
C7_CountsSumToTotal == totalObjects + totalAnomalies = totalDetections

\* one class counted in both maps
C7_Witness ==
    /\ totalDetections = 2
    /\ \E c \in ClassIds : c \in DOMAIN objectCounts /\ c \in DOMAIN anomalyCounts

(***************************************************************************)
(* C8.  totalDetections = sum of numDetects = size of the admission set,   *)
(* stated for the states in which the watcher has run.  Refuted by the     *)
(* code: the two stores keep their own admission sets and are reset by     *)
(* two separate functions.                                                 *)
(***************************************************************************)
C8_TotalsAgree ==
    ~watcherPending =>
        /\ totalDetections = SumNumDetects
        /\ totalDetections = Cardinality(seenTrackingIds)
        /\ totalDetections = Cardinality(analyticsSeenTrackingIds)

(***************************************************************************)
(* C9.  For every class, numDetects equals the number of admitted          *)
(* detections of that class: the admitted track values whose admitting     *)
(* (first received) detection carried that class; a class has a summary    *)
(* exactly when that number is positive.                                   *)
(***************************************************************************)
C9_SeenCountPerClass ==
    \A c \in ClassIds :
        /\ NumDetects(c) = Cardinality(AdmittedOfClass(c))
        /\ c \in DOMAIN detectionCounts <=> AdmittedOfClass(c) # {}

\* one snapshot of two detections, class 7 before class 5, one admission each
C9_Witness ==
    /\ NumDetects(5) = 1
    /\ NumDetects(7) = 1
    /\ Len(data.detections) = 2
    /\ data.detections[1].class_id = 7

(***************************************************************************)
(* C10.  For every class the best detection is an admitted detection of    *)
(* that class of maximum confidence, and among those of maximum confidence *)
(* the one admitted first.                                                 *)
(***************************************************************************)
C10_BestIsFirstMax ==
    \A c \in DOMAIN detectionCounts :
        \E i \in AdmittedOfClass(c) :
            /\ detectionCounts[c].detection = firstDelivered[i]
            /\ \A j \in AdmittedOfClass(c) :
                   /\ firstDelivered[j].confidence <= firstDelivered[i].confidence
                   /\ firstDelivered[j].confidence = firstDelivered[i].confidence
                          => i <= j

\* two admitted detections of one class tie, and the first is the best
C10_Witness ==
    \E c \in DOMAIN detectionCounts :
        /\ detectionCounts[c].numDetects = 2
        /\ Len(firstDelivered) >= 2
        /\ firstDelivered[1].class_id = c
        /\ firstDelivered[2].class_id = c
        /\ firstDelivered[1].confidence = firstDelivered[2].confidence
        /\ firstDelivered[1].track_id \in seenTrackingIds
        /\ firstDelivered[2].track_id \in seenTrackingIds
        /\ detectionCounts[c].detection = firstDelivered[1]

(***************************************************************************)
(* C11.  Reset is one transition: a step that empties the admission set of *)
(* either store leaves the admission sets of both stores, the class        *)
(* summaries, the totals, the extremes and the object / anomaly counts     *)
(* cleared together.                                                       *)
(* Refuted by the code: resetCounts clears the detections store only and   *)
(* resetAnalytics the analytics store only, and nothing calls both.        *)
(***************************************************************************)
C11_ResetIsOneTransition ==
    [][(\/ seenTrackingIds # {} /\ seenTrackingIds' = {}
        \/ analyticsSeenTrackingIds # {} /\ analyticsSeenTrackingIds' = {})
       => /\ seenTrackingIds' = {}
          /\ detectionCounts' = EmptyMap
          /\ analyticsSeenTrackingIds' = {}
          /\ totalDetections' = 0
          /\ totalConfidence' = 0
          /\ maxDetection' = NoDetection
          /\ minDetection' = NoDetection
          /\ objectCounts' = EmptyMap
          /\ anomalyCounts' = EmptyMap]_vars

\* The reset of the code is the pair resetCounts, resetAnalytics: it is
\* complete at the step that runs one of them while the other store has
\* received nothing since its own reset.
ResetCompleted ==
    \/ resetCounts /\ analyticsFirstDelivered = <<>>
    \/ resetAnalytics /\ firstDelivered = <<>>

(***************************************************************************)
(* C12, as claimed.  After a reset every accessor, those over the last     *)
(* response included, returns what it returns on stores just constructed.  *)
(* Refuted by the code: neither reset function assigns data.               *)
(***************************************************************************)
C12_ResetRestoresAllAccessors ==
    [][ResetCompleted =>
          /\ AggregateAccessors' = FreshAggregateAccessors
          /\ SnapshotAccessors' = FreshSnapshotAccessors]_vars

(***************************************************************************)
(* C12, as the code has it.  After a reset every accessor over the         *)
(* aggregates returns what it returns on stores just constructed, and the  *)
(* accessors over the last response still return that response.            *)
(***************************************************************************)
C12_ResetRestoresAggregateAccessors ==
    [][ResetCompleted =>
          /\ AggregateAccessors' = FreshAggregateAccessors
          /\ SnapshotAccessors' = SnapshotAccessors]_vars

\* both stores were reset after a response with detections came in
C12_Witness ==
    /\ delivered > 0
    /\ firstDelivered = <<>>
    /\ analyticsFirstDelivered = <<>>
    /\ detections # <<>>
    /\ ~watcherPending

(***************************************************************************)
(* C13.  A fetch that fails (getDetections rejects) leaves the admission   *)
(* sets, the class summaries, the totals, the extremes, the object and     *)
(* anomaly counts and the last response as they were; of the stores'       *)
(* reactive state only the error and loading flags are assigned.           *)
(***************************************************************************)
C13_FailedFetchKeepsAggregates ==
    [][FetchFailure =>
          /\ UNCHANGED <<data, aggregates>>
          /\ AggregateAccessors' = AggregateAccessors
          /\ SnapshotAccessors' = SnapshotAccessors
          /\ error'
          /\ ~loading']_vars

\* a fetch has failed after a response with an admitted detection came in
C13_Witness ==
    /\ error
    /\ ~loading
    /\ inFlight = 0
    /\ Len(detections) = 1
    /\ detections[1].track_id \in seenTrackingIds \cap analyticsSeenTrackingIds
    /\ totalDetections = 1
    /\ Len(groupedDetections) = 1

(***************************************************************************)
(* C14.  The cadence continues after a failure: the task in which a fetch  *)
(* fails arms a timer and stores its id, and a loop that is started and    *)
(* never stopped issues fetches again and again, however many of them      *)
(* fail.                                                                   *)
(***************************************************************************)
C14_CadenceContinues ==
    /\ [][FetchFailure => (intervalId' # 0 /\ intervalId' \in timers')]_vars
    /\ (<>started) => []<><<inFlight' > inFlight>>_vars

\* a fetch has failed and the next one is scheduled
C14_Witness ==
    /\ started
    /\ error
    /\ inFlight = 0
    /\ intervalId # 0
    /\ timers = {intervalId}

(***************************************************************************)
(* C15.  A malformed response is discarded as a whole: the task that       *)
(* receives it changes neither the admission set nor the class summaries   *)
(* of the detections store, and the watcher run that reads it changes      *)
(* nothing in the analytics store.                                         *)
(* Refuted by the code: both forEach loops have admitted the elements in   *)
(* front of the malformed one when it throws, and nothing undoes that.     *)
(***************************************************************************)
C15_MalformedSnapshotDiscarded ==
    [][/\ (\E snapshot \in MalformedSnapshots : FetchMalformed(snapshot))
             => UNCHANGED detStoreVars
       /\ (updateDetections /\ \E i \in 1..Len(detections) : detections[i] = NoDetection)
             => UNCHANGED analyticsVars]_vars

\* a fetch completes, by its outcome as the store reports it
FetchSucceeds == \E snapshot \in PollSnapshots : FetchSuccess(snapshot)
FetchFails ==
    \/ FetchFailure
    \/ \E snapshot \in MalformedSnapshots : FetchMalformed(snapshot)

(***************************************************************************)
(* C16.  The error flag tells whether the last fetch failed: it changes    *)
(* only when a fetch completes, it then records the outcome of that fetch, *)
(* and it stays while the next fetch is in flight.                         *)
(* Refuted by the code: fetchDetections clears the flag before its await.  *)
(***************************************************************************)
C16_ErrorIsLastFetchFailed ==
    [][IF FetchFails THEN error'
       ELSE IF FetchSucceeds THEN ~error'
       ELSE error' = error]_vars

(***************************************************************************)
(* C17.  stopPolling called while the loop is Scheduled (started, no fetch *)
(* in flight) cancels the pending timer and leaves the loop Idle with      *)
(* nothing that could issue a fetch; stopPolling called while the loop is  *)
(* already stopped changes nothing.                                        *)
(* Refuted by the code: intervalId names one timer only, so a timer armed  *)
(* by a second chain (C3) survives the call, and a fetch that settles      *)
(* after a stop (C2) arms a timer that a later stop then has to cancel.    *)
(***************************************************************************)
C17_StopWhileScheduledIdles ==
    [][/\ (StopPolling /\ started /\ inFlight = 0)
             => (intervalId' = 0 /\ timers' = {} /\ ~started')
       /\ (StopPolling /\ ~started) => UNCHANGED vars]_vars

\* position in the receipt log of the first admitted detection of class c
FirstAdmitted(c) ==
    CHOOSE i \in AdmittedOfClass(c) : \A j \in AdmittedOfClass(c) : i <= j

(***************************************************************************)
(* C18.  groupedDetectionsSorted holds every class summary once, every     *)
(* summary whose best detection is anomalous in front of every one whose   *)
(* best detection is not, and within each of the two groups the summaries  *)
(* in the order in which their classes were first admitted.                *)
(* Refuted by the code: the sort starts from Object.values, which lists    *)
(* the summaries by ascending class_id, not in insertion order.            *)
(***************************************************************************)
C18_SortedIsStablePartition ==
    LET view == groupedDetectionsSorted
    IN  /\ Len(view) = Cardinality(DOMAIN detectionCounts)
        /\ \A c \in DOMAIN detectionCounts :
               \E p \in 1..Len(view) : view[p] = detectionCounts[c]
        /\ \A p, q \in 1..Len(view) :
               p < q =>
                  /\ view[q].detection.is_anomaly => view[p].detection.is_anomaly
                  /\ view[p].detection.is_anomaly = view[q].detection.is_anomaly
                        => FirstAdmitted(view[p].detection.class_id)
                              < FirstAdmitted(view[q].detection.class_id)

\* list is the frequency table of counts over divisor: empty for the divisor
\* 0, else one entry per key, with count / divisor as its frequency
IsTableOf(list, counts, divisor) ==
    IF divisor = 0 THEN list = <<>>
    ELSE /\ Len(list) = Cardinality(DOMAIN counts)
         /\ \A c \in DOMAIN counts :
                \E i \in 1..Len(list) :
                    /\ list[i].class_id = c
                    /\ list[i].count = counts[c]
                    /\ list[i].frequency[1] * divisor = counts[c] * list[i].frequency[2]

FourTablesBuilt ==
    /\ IsTableOf(objectFrequencyByObjects, objectCounts, totalObjects)
    /\ IsTableOf(anomalyFrequencyByAnomalies, anomalyCounts, totalAnomalies)
    /\ IsTableOf(objectFrequencyByDetections, objectCounts, totalDetections)
    /\ IsTableOf(anomalyFrequencyByDetections, anomalyCounts, totalDetections)

(***************************************************************************)
(* C19, as claimed.  Each of the four frequency tables is built from its   *)
(* counts and its divisor, and is empty exactly when its divisor is 0.     *)
(* Refuted: a table over totalDetections is empty as well when its counts  *)
(* have no key, with detections of the other kind admitted.                *)
(***************************************************************************)
C19_TableEmptyIffDivisorZero ==
    /\ FourTablesBuilt
    /\ objectFrequencyByObjects = <<>> <=> totalObjects = 0
    /\ anomalyFrequencyByAnomalies = <<>> <=> totalAnomalies = 0
    /\ objectFrequencyByDetections = <<>> <=> totalDetections = 0
    /\ anomalyFrequencyByDetections = <<>> <=> totalDetections = 0

(***************************************************************************)
(* C19, as the code has it.  Each of the four frequency tables is built    *)
(* from its counts and its divisor, and is empty exactly when its counts   *)
(* have no key: the object tables when totalObjects is 0, the anomaly      *)
(* tables when totalAnomalies is 0, whichever divisor they use.            *)
(***************************************************************************)
C19_TableEmptyIffNoCounts ==
    /\ FourTablesBuilt
    /\ objectFrequencyByObjects = <<>> <=> totalObjects = 0
    /\ anomalyFrequencyByAnomalies = <<>> <=> totalAnomalies = 0
    /\ objectFrequencyByDetections = <<>> <=> totalObjects = 0
    /\ anomalyFrequencyByDetections = <<>> <=> totalAnomalies = 0

\* only anomalous detections are admitted: the object table over
\* totalDetections is empty while totalDetections is not 0
C19_Witness ==
    /\ totalDetections > 0
    /\ totalObjects = 0
    /\ objectFrequencyByDetections = <<>>
    /\ Len(anomalyFrequencyByDetections) > 0
    /\ anomalyFrequencyByAnomalies[1].frequency = <<1, 1>>

\* detections of class c with anomaly flag a that the analytics store admitted
\* (in FreqSpec every detection has a numeric track id, so the first one
\* received for a track is the one admitted)
AdmittedWith(c, a) ==
    {i \in 1..Len(analyticsFirstDelivered) :
        /\ analyticsFirstDelivered[i].class_id = c
        /\ analyticsFirstDelivered[i].is_anomaly = a}

\* v hundredths of a percent is n / d as a percentage, to the nearest
\* hundredth (the upper one on a tie)
IsPercentage(v, n, d) ==
    /\ 2 * (v * d - 10000 * n) <= d
    /\ 2 * (10000 * n - v * d) < d

\* the lookup of class c in a table built from counts over divisor
LooksUp(list, counts, divisor, c) ==
    IF c \in DOMAIN counts
    THEN IsPercentage(getFrequencyFromList(list, c), counts[c], divisor)
    ELSE getFrequencyFromList(list, c) = 0

(***************************************************************************)
(* C20.  getFrequencyFromList returns 0 for a class that is not in the     *)
(* table and otherwise the class's frequency as a percentage with two      *)
(* decimals; anomalyCounts and objectCounts count the admitted anomalous   *)
(* and non-anomalous detections of each class; and a class that is the     *)
(* only one with anomalous admissions has 100 percent in                   *)
(* anomalyFrequencyByAnomalies.                                            *)
(***************************************************************************)
C20_FrequencyOfIsPercentage ==
    /\ \A c \in ClassIds :
          /\ LooksUp(objectFrequencyByObjects, objectCounts, totalObjects, c)
          /\ LooksUp(anomalyFrequencyByAnomalies, anomalyCounts, totalAnomalies, c)
          /\ LooksUp(objectFrequencyByDetections, objectCounts, totalDetections, c)
          /\ LooksUp(anomalyFrequencyByDetections, anomalyCounts, totalDetections, c)
          /\ Cardinality(AdmittedWith(c, TRUE)) =
                 (IF c \in DOMAIN anomalyCounts THEN anomalyCounts[c] ELSE 0)
          /\ Cardinality(AdmittedWith(c, FALSE)) =
                 (IF c \in DOMAIN objectCounts THEN objectCounts[c] ELSE 0)
    /\ \A c \in ClassIds :
          DOMAIN anomalyCounts = {c}
             => getFrequencyFromList(anomalyFrequencyByAnomalies, c) = 10000

\* two anomalous detections and one non-anomalous detection of class 7, on
\* three track ids, are admitted, and nothing else
C20_Witness ==
    /\ Len(analyticsFirstDelivered) = 3
    /\ \A i \in 1..3 : analyticsFirstDelivered[i].class_id = 7
    /\ Cardinality(AdmittedWith(7, TRUE)) = 2
    /\ Cardinality(AdmittedWith(7, FALSE)) = 1
    /\ analyticsSeenTrackingIds = 1..3
    /\ anomalyCounts = (7 :> 2)
    /\ objectCounts = (7 :> 1)
    /\ getFrequencyFromList(anomalyFrequencyByAnomalies, 7) = 10000
    /\ getFrequencyFromList(anomalyFrequencyByAnomalies, 5) = 0
    /\ getFrequencyFromList(anomalyFrequencyByDetections, 7) = 6667
    /\ getFrequencyFromList(objectFrequencyByDetections, 7) = 3333

(***************************************************************************)
(* C21.  The admission sets and the numDetects of every class only grow:   *)
(* across every step that is not a reset the admission set of each store   *)
(* keeps its members, every class summary stays, and no numDetects         *)
(* decreases.                                                              *)
(***************************************************************************)
C21_AdmissionsOnlyGrow ==
    [][~(resetCounts \/ resetAnalytics) =>
          /\ seenTrackingIds \subseteq seenTrackingIds'
          /\ analyticsSeenTrackingIds \subseteq analyticsSeenTrackingIds'
          /\ totalDetections <= totalDetections'
          /\ \A c \in DOMAIN detectionCounts :
                 /\ c \in DOMAIN detectionCounts'
                 /\ detectionCounts[c].numDetects <= detectionCounts'[c].numDetects]_vars

\* both admission sets and a numDetects have grown twice, and the loop was
\* stopped after a failed fetch
C21_Witness ==
    /\ Cardinality(seenTrackingIds) = 2
    /\ analyticsSeenTrackingIds = seenTrackingIds
    /\ \E c \in DOMAIN detectionCounts : detectionCounts[c].numDetects = 2
    /\ error
    /\ ~started

\* positions of the analytics store's receipt log whose detection it admitted
AnalyticsAdmitted ==
    {i \in 1..Len(analyticsFirstDelivered) :
        analyticsFirstDelivered[i].track_id \in analyticsSeenTrackingIds}

(***************************************************************************)
(* C22.  maxDetection is the admitted detection of maximum confidence, and *)
(* among those of maximum confidence the one admitted first; minDetection  *)
(* likewise for the minimum; the first admitted detection is both; and     *)
(* both are null exactly when totalDetections is 0.                        *)
(***************************************************************************)
C22_ExtremesAreFirstStrict ==
    /\ (maxDetection = NoDetection) <=> (totalDetections = 0)
    /\ (minDetection = NoDetection) <=> (totalDetections = 0)
    /\ totalDetections = 1 => maxDetection = minDetection
    /\ totalDetections > 0 =>
          \E i, j \in AnalyticsAdmitted :
              /\ maxDetection = analyticsFirstDelivered[i]
              /\ minDetection = analyticsFirstDelivered[j]
              /\ \A k \in AnalyticsAdmitted :
                     LET d == analyticsFirstDelivered[k]
                     IN  /\ d.confidence <= maxDetection.confidence
                         /\ d.confidence >= minDetection.confidence
                         /\ d.confidence = maxDetection.confidence => i <= k
                         /\ d.confidence = minDetection.confidence => j <= k

\* two detections of equal confidence are admitted, and the first one is
\* both extremes
C22_Witness ==
    /\ totalDetections = 2
    /\ Len(analyticsFirstDelivered) = 2
    /\ analyticsFirstDelivered[1].confidence = analyticsFirstDelivered[2].confidence
    /\ analyticsFirstDelivered[1] # analyticsFirstDelivered[2]
    /\ maxDetection = analyticsFirstDelivered[1]
    /\ minDetection = analyticsFirstDelivered[1]

\* count[id] ?? 0
CountOf(counts, id) == IF id \in DOMAIN counts THEN counts[id] ELSE 0

(***************************************************************************)
(* C23.  Each admission increments exactly one entry of the two count maps *)
(* by exactly 1: anomalyCounts[class_id] for an anomalous detection,       *)
(* objectCounts[class_id] otherwise; the other map and the entries of the  *)
(* other classes stay as they were.  (In FreqSpec a watcher run admits at  *)
(* most the one detection of the response.)                                *)
(***************************************************************************)
C23_OneCountPerAdmission ==
    [][totalDetections' = totalDetections + 1 =>
          LET det == detections[1]
          IN  \A c \in ClassIds :
                 /\ CountOf(anomalyCounts', c) = CountOf(anomalyCounts, c)
                       + (IF det.is_anomaly /\ c = det.class_id THEN 1 ELSE 0)
                 /\ CountOf(objectCounts', c) = CountOf(objectCounts, c)
                       + (IF ~det.is_anomaly /\ c = det.class_id THEN 1 ELSE 0)
                 /\ DOMAIN anomalyCounts' \cup DOMAIN objectCounts' \subseteq ClassIds
                 /\ c \in DOMAIN anomalyCounts' => anomalyCounts'[c] > 0
                 /\ c \in DOMAIN objectCounts' => objectCounts'[c] > 0]_vars

\* one class has an entry in both maps, after three admissions
C23_Witness ==
    /\ totalDetections = 3
    /\ \E c \in ClassIds :
          /\ c \in DOMAIN anomalyCounts
          /\ c \in DOMAIN objectCounts
          /\ anomalyCounts[c] + objectCounts[c] = 3

(***************************************************************************)
(* C24.  startPolling called on a stopped loop issues the first fetch in   *)
(* the same task, and arms no timer.                                       *)
(* Refuted by the code, through C2: a fetch that settles after stopPolling *)
(* leaves intervalId naming a timer, and startPolling then returns at its  *)
(* first line, leaving the first fetch to that timer.                      *)
(***************************************************************************)
C24_StartFetchesImmediately ==
    [][(StartPolling /\ ~started) =>
          /\ inFlight' = inFlight + 1
          /\ loading'
          /\ timers' = timers]_vars

(***************************************************************************)
(* C25.  A timer is armed only by the handler of a completed fetch, one    *)
(* per completion; in every state at most one timer is pending, and none   *)
(* while a fetch is in flight.                                             *)
(* Refuted by the code, through C1 and C3: a second startPolling before    *)
(* the first fetch settles starts a second chain, whose fetch is in flight *)
(* while the first chain's timer is pending.                               *)
(***************************************************************************)
C25_OneTimerNoneWhileFetching ==
    /\ [](Cardinality(timers) <= 1 /\ (inFlight > 0 => timers = {}))
    /\ [][~(timers' \subseteq timers) =>
             /\ inFlight' = inFlight - 1
             /\ Cardinality(timers' \ timers) = 1]_vars

\* getDetections() has resolved and fetchDetections handles the response
HandlesResponse ==
    \/ \E snapshot \in PollSnapshots : FetchSuccess(snapshot)
    \/ \E snapshot \in MalformedSnapshots : FetchMalformed(snapshot)

(***************************************************************************)
(* C26.  Single writer: the admission set and the class summaries of the   *)
(* detections store change only in the task that handles a response (or in *)
(* resetCounts), the analytics store only in the watcher run that follows  *)
(* that task (or in resetAnalytics); startPolling, stopPolling, a timer    *)
(* firing and a failed fetch change neither; and between a handler's task  *)
(* and its watcher run no other task runs, so the admissions of two        *)
(* responses never interleave.                                             *)
(***************************************************************************)
C26_SingleWriter ==
    [][/\ detStoreVars' # detStoreVars => (HandlesResponse \/ resetCounts)
       /\ analyticsVars' # analyticsVars => (updateDetections \/ resetAnalytics)
       /\ (StartPolling \/ StopPolling \/ TimerFire \/ FetchFailure)
             => /\ UNCHANGED aggregates
                /\ AggregateAccessors' = AggregateAccessors
       /\ watcherPending => updateDetections]_vars

\* the loop was started, fed and stopped, and the aggregates are in place
C26_Witness ==
    /\ ~started
    /\ inFlight = 0
    /\ timers = {}
    /\ intervalId = 0
    /\ Cardinality(seenTrackingIds) = 2
    /\ totalDetections = 2

(***************************************************************************)
(* C27.  groupedAnomalies is groupedDetectionsSorted filtered to the       *)
(* summaries whose best detection is anomalous, in the same order, and it  *)
(* is the leading block of groupedDetectionsSorted.                        *)
(***************************************************************************)
C27_AnomaliesAreLeadingBlock ==
    /\ groupedAnomalies = SelectSeq(groupedDetectionsSorted, IsAnomalyEntry)
    /\ Len(groupedAnomalies) <= Len(groupedDetectionsSorted)
    /\ groupedAnomalies = SubSeq(groupedDetectionsSorted, 1, Len(groupedAnomalies))
    /\ \A p \in (Len(groupedAnomalies) + 1)..Len(groupedDetectionsSorted) :
           ~groupedDetectionsSorted[p].detection.is_anomaly

\* the sort has moved an anomalous summary in front of a non-anomalous one
\* of a smaller class id
C27_Witness ==
    /\ Len(groupedDetections) = 2
    /\ ~groupedDetections[1].detection.is_anomaly
    /\ groupedDetections[2].detection.is_anomaly
    /\ groupedDetectionsSorted = <<groupedDetections[2], groupedDetections[1]>>
    /\ groupedAnomalies = <<groupedDetections[2]>>

\* positions of s that snapshot order admits into an admission set seen: the
\* first position of each track value that is neither null nor in seen
FirstNew(s, seen) ==
    {i \in 1..Len(s) :
        /\ s[i].track_id # NullId
        /\ s[i].track_id \notin seen
        /\ \A j \in 1..(i - 1) : s[j].track_id # s[i].track_id}

\* the detection of highest confidence among old and the positions K of s,
\* the earliest one on a tie (old is earlier than every position)
HighestAfter(old, K, s) ==
    IF K = {} THEN old
    ELSE LET i == CHOOSE k \in K :
                     \A l \in K : /\ s[l].confidence <= s[k].confidence
                                  /\ s[l].confidence = s[k].confidence => k <= l
         IN  IF old # NoDetection /\ old.confidence >= s[i].confidence
             THEN old ELSE s[i]

\* the same for the lowest confidence
LowestAfter(old, K, s) ==
    IF K = {} THEN old
    ELSE LET i == CHOOSE k \in K :
                     \A l \in K : /\ s[l].confidence >= s[k].confidence
                                  /\ s[l].confidence = s[k].confidence => k <= l
         IN  IF old # NoDetection /\ old.confidence <= s[i].confidence
             THEN old ELSE s[i]

BestOf(counts, c) == IF c \in DOMAIN counts THEN counts[c].detection ELSE NoDetection

(***************************************************************************)
(* C28.  Admission follows snapshot order.  When a response is handled,    *)
(* of several detections with one track id not admitted before the         *)
(* earliest in the sequence is the one admitted, and every tie for a       *)
(* class's best detection goes to the earlier detection; when the watcher  *)
(* then runs, the same holds for the analytics store's admissions and for  *)
(* maxDetection and minDetection.                                          *)
(***************************************************************************)
C28_AdmissionFollowsSnapshotOrder ==
    [][/\ (~watcherPending /\ watcherPending') =>
             LET s == detections'
                 new == FirstNew(s, seenTrackingIds)
             IN  /\ seenTrackingIds' = seenTrackingIds \cup {s[i].track_id : i \in new}
                 /\ \A c \in ClassIds :
                        LET K == {i \in new : s[i].class_id = c}
                        IN  /\ NumDetects(c)' = NumDetects(c) + Cardinality(K)
                            /\ BestOf(detectionCounts', c)
                                  = HighestAfter(BestOf(detectionCounts, c), K, s)
       /\ (watcherPending /\ ~watcherPending') =>
             LET s == detections
                 new == FirstNew(s, analyticsSeenTrackingIds)
             IN  /\ analyticsSeenTrackingIds'
                        = analyticsSeenTrackingIds \cup {s[i].track_id : i \in new}
                 /\ totalDetections' = totalDetections + Cardinality(new)
                 /\ maxDetection' = HighestAfter(maxDetection, new, s)
                 /\ minDetection' = LowestAfter(minDetection, new, s)]_vars

\* a response held two detections of different classes with one new track
\* id, and both stores admitted the first of them
C28_Witness ==
    /\ ~watcherPending
    /\ Len(detections) = 2
    /\ detections[1].track_id \in TrackIds
    /\ detections[1].track_id = detections[2].track_id
    /\ detections[1].class_id # detections[2].class_id
    /\ seenTrackingIds = {detections[1].track_id}
    /\ DOMAIN detectionCounts = {detections[1].class_id}
    /\ detectionCounts[detections[1].class_id].detection = detections[1]
    /\ totalDetections = 1
    /\ maxDetection = detections[1]

(***************************************************************************)
(* C29.  The two admission sets stay consistent: in every reachable state  *)
(* the analytics store's seenTrackingIds is a subset of the detections     *)
(* store's seenTrackingIds, and the two are equal whenever no watcher      *)
(* update is pending.                                                      *)
(***************************************************************************)
C29_AdmissionSetsConsistent ==
    /\ analyticsSeenTrackingIds \subseteq seenTrackingIds
    /\ ~watcherPending => analyticsSeenTrackingIds = seenTrackingIds

(***************************************************************************)
(* C30.  A stopPolling call made while no fetch is in flight fully stops   *)
(* polling: when it returns no timer is pending, so no fetch is issued     *)
(* before the next startPolling.                                           *)
(***************************************************************************)
C30_StopWhileIdleStopsAll ==
    [][(StopPolling /\ inFlight = 0) => (timers' = {} /\ intervalId' = 0)]_vars

(***************************************************************************)
(* C31.  The loading flag tracks the fetch: in every reachable state       *)
(* loading is true if and only if a fetch issued by fetchDetections is in  *)
(* flight.                                                                 *)
(***************************************************************************)
C31_LoadingTracksFetch ==
    loading <=> inFlight > 0

\* an anomalous detection is among those the detections store admitted since
\* its last reset
AnomalyAdmitted ==
    \E c \in ClassIds : \E i \in AdmittedOfClass(c) : firstDelivered[i].is_anomaly

\* position in the receipt log of the admitted detection of class c of highest
\* confidence, the earliest one on a tie
FirstHighest(c) ==
    CHOOSE i \in AdmittedOfClass(c) :
        \A j \in AdmittedOfClass(c) :
            /\ firstDelivered[j].confidence <= firstDelivered[i].confidence
            /\ firstDelivered[j].confidence = firstDelivered[i].confidence => i <= j

(***************************************************************************)
(* C32.  has_anomaly is true in every state in which at least one          *)
(* anomalous detection has been admitted since the last reset.             *)
(* Refuted: has_anomaly looks at the best detection of each class summary  *)
(* only, and an admitted anomalous detection need not be the best of its   *)
(* class.                                                                  *)
(***************************************************************************)
C32_HasAnomalyWhenAdmitted ==
    AnomalyAdmitted => has_anomaly

(***************************************************************************)
(* C32, amended.  has_anomaly is true exactly when, for some class, the    *)
(* admitted detection of highest confidence (the earliest on a tie) is     *)
(* anomalous; so it implies that an anomalous detection has been admitted  *)
(* since the last reset, and not the converse.                             *)
(***************************************************************************)
C32_HasAnomalyIffBestIsAnomalous ==
    /\ has_anomaly <=>
          \E c \in ClassIds :
              /\ AdmittedOfClass(c) # {}
              /\ firstDelivered[FirstHighest(c)].is_anomaly
    /\ has_anomaly => AnomalyAdmitted

\* an anomalous detection was admitted and then outdone by a non-anomalous
\* detection of its class, and no summary is anomalous
C32_Witness ==
    /\ ~has_anomaly
    /\ \E c \in DOMAIN detectionCounts :
          \E i, j \in AdmittedOfClass(c) :
              /\ i < j
              /\ firstDelivered[i].is_anomaly
              /\ ~firstDelivered[j].is_anomaly
              /\ firstDelivered[i].confidence < firstDelivered[j].confidence
              /\ detectionCounts[c].detection = firstDelivered[j]

\* class c has an item in a frequency table
InTable(list, c) == \E i \in 1..Len(list) : list[i].class_id = c

(***************************************************************************)
(* C33.  Whenever the analytics store has processed every snapshot the     *)
(* detections store has, each class summary whose best detection is        *)
(* anomalous has anomalyCounts[class_id] >= 1 and each whose best          *)
(* detection is not anomalous has objectCounts[class_id] >= 1, so the      *)
(* by-type table chosen by the best detection's flag holds the class.      *)
(***************************************************************************)
C33_CardClassIsInItsTable ==
    ~watcherPending =>
        \A c \in DOMAIN detectionCounts :
            IF detectionCounts[c].detection.is_anomaly
            THEN /\ CountOf(anomalyCounts, c) >= 1
                 /\ InTable(anomalyFrequencyByAnomalies, c)
            ELSE /\ CountOf(objectCounts, c) >= 1
                 /\ InTable(objectFrequencyByObjects, c)

\* no item of a frequency table carries the fallback name
AllNamed(list) == \A i \in 1..Len(list) : list[i].class_name # Unknown

(***************************************************************************)
(* C34.  Every class_id that is a key of objectCounts or anomalyCounts has *)
(* an entry in classInfo, recorded when the first detection of the class   *)
(* is admitted and kept until resetAnalytics, so no item of a frequency    *)
(* table carries the fallback name "Unknown".  (A class's name is          *)
(* identified with its class_id here.)                                     *)
(***************************************************************************)
C34_EveryCountedClassIsNamed ==
    /\ DOMAIN objectCounts \cup DOMAIN anomalyCounts \subseteq classInfo
    /\ classInfo = {analyticsFirstDelivered[i].class_id : i \in AnalyticsAdmitted}
    /\ AllNamed(objectFrequencyByObjects)
    /\ AllNamed(anomalyFrequencyByAnomalies)
    /\ AllNamed(objectFrequencyByDetections)
    /\ AllNamed(anomalyFrequencyByDetections)

\* resetAnalytics forgot the name of a class still displayed, and a detection
\* of another class admitted afterwards is listed under its name
C34_Witness ==
    /\ ~watcherPending
    /\ totalDetections = 1
    /\ Len(objectFrequencyByDetections) = 1
    /\ objectFrequencyByDetections[1].class_name = 7
    /\ classInfo = {7}
    /\ DOMAIN detectionCounts = {5, 7}

\* sum of the confidences of the detections the analytics store admitted
AdmittedConfidenceSum ==
    SumOver([i \in AnalyticsAdmitted |-> analyticsFirstDelivered[i].confidence],
            AnalyticsAdmitted)

(***************************************************************************)
(* C35.  With integer confidences the running statistics agree in every    *)
(* state: totalConfidence is the sum of the confidences of the admitted    *)
(* detections and totalDetections their number; when totalDetections > 0   *)
(* minDetection.confidence * totalDetections <= totalConfidence <=         *)
(* maxDetection.confidence * totalDetections and averageConfidence is      *)
(* their quotient, between the two extremes; when totalDetections = 0      *)
(* averageConfidence is 0.                                                 *)
(***************************************************************************)
C35_RunningStatisticsAgree ==
    /\ totalConfidence = AdmittedConfidenceSum
    /\ totalDetections = Cardinality(AnalyticsAdmitted)
    /\ totalDetections = 0 => averageConfidence = Zero
    /\ totalDetections > 0 =>
          /\ minDetection.confidence * totalDetections <= totalConfidence
          /\ totalConfidence <= maxDetection.confidence * totalDetections
          /\ averageConfidence[1] * totalDetections
                = totalConfidence * averageConfidence[2]
          /\ minDetection.confidence * averageConfidence[2] <= averageConfidence[1]
          /\ averageConfidence[1] <= maxDetection.confidence * averageConfidence[2]

\* two detections of different confidence are admitted: the average lies
\* strictly between the extremes
C35_Witness ==
    /\ totalDetections = 2
    /\ minDetection.confidence = 4
    /\ maxDetection.confidence = 9
    /\ totalConfidence = 13
    /\ averageConfidence = <<13, 2>>

====
